---- MODULE Spec2Model ----
(***************************************************************************)
(* Model of src/app.py: the IBTrACS storm catalog resolver                 *)
(* (get_storms_for_basin_year), the track extractor (extract_storm_data)   *)
(* and the derived metrics of create_storm_plot.                           *)
(*                                                                         *)
(* Texts are TLA+ strings, read character by character with SubSeq.        *)
(* Numbers parsed by float() are carried in tenths (25.5 is 255); ACE is   *)
(* carried in millionths (0.65 is 650000) and duration_days in hundredths. *)
(***************************************************************************)
EXTENDS Integers, Sequences, FiniteSets, TLC

VARIABLES
    \* ---- extract_storm_data / create_storm_plot
    page,            \* the detail page: [ok |-> whether the fetch succeeded, tables |-> its tables]
    pc,              \* position in extract_storm_data / create_storm_plot
    data_table,      \* the located table (a sequence of rows), <<>> before
    column_indices,  \* dict: semantic field -> header index (0-based)
    row_i,           \* index of the next data row of the loop at line 319
    storm_data,      \* list of emitted fixes
    current_date,    \* date context of the timestamp reconstruction, None at start
    err,             \* message of the ValueError raised, None when none
    stats,           \* the statistics dict create_storm_plot returns, None before
    fix_rows,        \* history: for each fix of storm_data, the index of its row in data_table
    \* ---- get_storms_for_basin_year
    year_page,       \* the year page: [ok |-> whether the fetch succeeded, tables |-> its tables]
    basin_name,      \* the requested basin (a key of BASINS)
    cat_pc,          \* position in get_storms_for_basin_year
    main_table,      \* the table chosen at lines 165-179, <<>> when none
    header_row_index,\* index of the header row (0-based), -1 when not found
    cat_row,         \* index of the next row of the loop at line 201 (0-based)
    storms,          \* entries appended so far, in table order
    storm_rows,      \* history: for each entry of storms, the index of its row in main_table
    catalog,         \* the returned list, None before the return
    \* ---- main and the two st.cache_data caches
    now,             \* the clock of the caches, in seconds
    catalog_cache,   \* cache of get_storms_for_basin_year: (basin, year) -> value and time stored
    track_cache,     \* cache of extract_storm_data: url -> value and time stored
    main_pc,         \* position in main, "off" when main is not running
    selected_basin,  \* the basin chosen in the select box
    main_storms,     \* main's storms: the catalog of the chosen basin and year
    selected_storm_display, \* the display name chosen, "" when none
    generate_button, \* whether the button was pressed
    notice,          \* the last st.error, st.warning or st.success text, None when none
    fig,             \* main's fig: None or the figure create_storm_plot returned
    figure,          \* the figure of plt.subplots in this run: "none", "open" or "closed"
    failed_keys,     \* history: the keys whose stored catalog came from a failed fetch
    raised_urls,     \* history: the urls whose latest extraction raised
    run              \* history of this run: what the caches held and what was called

vars == <<page, pc, data_table, column_indices, row_i, storm_data, current_date,
          err, stats, fix_rows, year_page, basin_name, cat_pc, main_table,
          header_row_index, cat_row, storms, storm_rows, catalog,
          now, catalog_cache, track_cache, main_pc, selected_basin, main_storms,
          selected_storm_display, generate_button, notice, fig, figure,
          failed_keys, raised_urls, run>>

extract_vars == <<page, pc, data_table, column_indices, row_i, storm_data,
                  current_date, err, stats, fix_rows>>

catalog_vars == <<year_page, basin_name, cat_pc, main_table, header_row_index,
                  cat_row, storms, storm_rows, catalog>>

main_vars == <<now, catalog_cache, track_cache, main_pc, selected_basin, main_storms,
               selected_storm_display, generate_button, notice, fig, figure,
               failed_keys, raised_urls, run>>

\* Python's None (no stripped cell text and no URL starts with a blank)
None == " None"

\* np.nan, the unknown wind or pressure (never compared without IsNa first)
NaN == -1000000

\* pd.isna
IsNa(x) == x = NaN

-----------------------------------------------------------------------------
(* Characters and strings                                                   *)

Ch(s, i) == SubSeq(s, i, i)

UpperLetters == "ABCDEFGHIJKLMNOPQRSTUVWXYZ"

LowerLetters == "abcdefghijklmnopqrstuvwxyz"

DigitChars == "0123456789"

\* the characters of a string, as a set
CharSet(alphabet) == {Ch(alphabet, i) : i \in 1..Len(alphabet)}

UpperSet == CharSet(UpperLetters)

LowerSet == CharSet(LowerLetters)

DigitSet == CharSet(DigitChars)

\* the position of each character of a string without repetitions
IndexOf(alphabet) == [c \in CharSet(alphabet) |-> CHOOSE i \in 1..Len(alphabet) : Ch(alphabet, i) = c]

UpperIndex == IndexOf(UpperLetters)

LowerIndex == IndexOf(LowerLetters)

DigitIndex == IndexOf(DigitChars)

IsDigit(c) == c \in DigitSet

IsUpper(c) == c \in UpperSet

IsLower(c) == c \in LowerSet

\* \s of the re module
IsSpace(c) == c \in {" ", "\n", "\t"}

DigitVal(c) == DigitIndex[c] - 1

LowerCh(c) == IF IsUpper(c) THEN Ch(LowerLetters, UpperIndex[c]) ELSE c

UpperCh(c) == IF IsLower(c) THEN Ch(UpperLetters, LowerIndex[c]) ELSE c

RECURSIVE str_lower(_)
\* str.lower()
str_lower(s) == IF s = "" THEN "" ELSE LowerCh(Ch(s, 1)) \o str_lower(SubSeq(s, 2, Len(s)))

RECURSIVE str_upper(_)
\* str.upper()
str_upper(s) == IF s = "" THEN "" ELSE UpperCh(Ch(s, 1)) \o str_upper(SubSeq(s, 2, Len(s)))

\* Python's `sub in s`
Contains(s, sub) == \E i \in 1..(Len(s) - Len(sub) + 1) : SubSeq(s, i, i + Len(sub) - 1) = sub

RECURSIVE LStrip(_)
LStrip(s) == IF s # "" /\ IsSpace(Ch(s, 1)) THEN LStrip(SubSeq(s, 2, Len(s))) ELSE s

RECURSIVE RStrip(_)
RStrip(s) == IF s # "" /\ IsSpace(Ch(s, Len(s))) THEN RStrip(SubSeq(s, 1, Len(s) - 1)) ELSE s

\* str.strip()
Strip(s) == RStrip(LStrip(s))

RECURSIVE JoinText(_)
\* get_text() of a row or a table: the texts of its parts, concatenated
JoinText(parts) == IF parts = <<>> THEN "" ELSE Head(parts) \o JoinText(Tail(parts))

-----------------------------------------------------------------------------
(* Regular expressions.  A pattern is a sequence of tokens: "D" \d,         *)
(* "D?" an optional \d (greedy), "S+" \s+ (greedy), "U" [A-Z], "L" [a-z],   *)
(* any other token the literal character.                                   *)

TokenMatches(tok, c) ==
    CASE tok = "D" -> IsDigit(c)
      [] tok = "U" -> IsUpper(c)
      [] tok = "L" -> IsLower(c)
      [] OTHER -> c = tok

RECURSIVE SpaceRun(_, _)
\* number of consecutive whitespace characters of s from position i
SpaceRun(s, i) == IF i <= Len(s) /\ IsSpace(Ch(s, i)) THEN 1 + SpaceRun(s, i + 1) ELSE 0

RECURSIVE MatchEnd(_, _, _, _)
\* The position after the match of pat[k..] at position i of s, as the
\* backtracking matcher of re finds it (greedy first); 0 when there is none.
MatchEnd(s, i, pat, k) ==
    IF k > Len(pat) THEN i
    ELSE LET tok == pat[k] IN
      CASE tok = "S+" ->
             LET ns == {n \in 1..SpaceRun(s, i) : MatchEnd(s, i + n, pat, k + 1) # 0}
             IN IF ns = {} THEN 0
                ELSE MatchEnd(s, i + (CHOOSE n \in ns : \A m \in ns : m <= n), pat, k + 1)
        [] tok = "D?" ->
             IF i <= Len(s) /\ IsDigit(Ch(s, i)) /\ MatchEnd(s, i + 1, pat, k + 1) # 0
             THEN MatchEnd(s, i + 1, pat, k + 1)
             ELSE MatchEnd(s, i, pat, k + 1)
        [] OTHER ->
             IF i <= Len(s) /\ TokenMatches(tok, Ch(s, i))
             THEN MatchEnd(s, i + 1, pat, k + 1)
             ELSE 0

\* re.match(pat, s): a match at the start of s
re_match(pat, s) == MatchEnd(s, 1, pat, 1) # 0

\* re.search(pat, s): the leftmost position with a match, 0 when none
re_search(pat, s) ==
    LET hits == {i \in 1..Len(s) : MatchEnd(s, i, pat, 1) # 0}
    IN IF hits = {} THEN 0 ELSE CHOOSE i \in hits : \A j \in hits : i <= j

RECURSIVE SubFrom(_, _, _)
SubFrom(pat, s, i) ==
    IF i > Len(s) THEN ""
    ELSE LET e == MatchEnd(s, i, pat, 1)
         IN IF e # 0 THEN SubFrom(pat, s, e) ELSE Ch(s, i) \o SubFrom(pat, s, i + 1)

\* re.sub(pat, '', s): every leftmost non-overlapping match removed
re_sub(pat, s) == SubFrom(pat, s, 1)

\* r'\d{4}-\d{2}-\d{2}\s+\d{2}:\d{2}:\d{2}'
FULL_DATETIME_RE == <<"D","D","D","D","-","D","D","-","D","D","S+","D","D",":","D","D",":","D","D">>

\* r'\d{2}:\d{2}:\d{2}' and r'(\d{2}):\d{2}:\d{2}'
BARE_TIME_RE == <<"D","D",":","D","D",":","D","D">>

\* r'\*'
STAR_RE == <<"*">>

\* r'\s+[A-Z][a-z]{2}\s+\d{1,2}-\d{1,2}'
DATE_RANGE_RE == <<"S+","U","L","L","S+","D","D?","-","D","D?">>

\* r'\s+[A-Z][a-z]{2}\s+\d{1,2}-[A-Z][a-z]{2}\s+\d{1,2}'
DATE_RANGE2_RE == <<"S+","U","L","L","S+","D","D?","-","U","L","L","S+","D","D?">>

\* r'^[A-Z][a-z]{2}\s+\d'
DATE_LIKE_RE == <<"U","L","L","S+","D">>

-----------------------------------------------------------------------------
(* float(): an optional sign, digits, an optional "." and digits (at least  *)
(* one digit); the value in tenths, the first decimal kept.                 *)

Unsigned(s) == IF s # "" /\ Ch(s, 1) \in {"-", "+"} THEN SubSeq(s, 2, Len(s)) ELSE s

DotPos(s) == IF Contains(s, ".") THEN CHOOSE i \in 1..Len(s) : Ch(s, i) = "." ELSE Len(s) + 1

AllDigits(s) == \A i \in 1..Len(s) : IsDigit(Ch(s, i))

\* whether float(s) returns (TRUE) or raises ValueError (FALSE)
IsFloatText(s) ==
    LET u == Unsigned(Strip(s))
        d == DotPos(u)
        ip == SubSeq(u, 1, d - 1)
        fp == SubSeq(u, d + 1, Len(u))
    IN /\ AllDigits(ip)
       /\ AllDigits(fp)
       /\ Len(ip) + Len(fp) > 0

RECURSIVE DigitsValue(_)
DigitsValue(s) == IF s = "" THEN 0 ELSE DigitsValue(SubSeq(s, 1, Len(s) - 1)) * 10 + DigitVal(Ch(s, Len(s)))

\* float(s), in tenths
FloatTenths(s) ==
    LET t == Strip(s)
        u == Unsigned(t)
        d == DotPos(u)
        ip == SubSeq(u, 1, d - 1)
        fp == SubSeq(u, d + 1, Len(u))
        mag == DigitsValue(ip) * 10 + (IF fp = "" THEN 0 ELSE DigitVal(Ch(fp, 1)))
    IN IF t # "" /\ Ch(t, 1) = "-" THEN 0 - mag ELSE mag

\* n knots, in tenths
Kt(n) == n * 10

-----------------------------------------------------------------------------
(* extract_storm_data                                                       *)

\* dict assignment d[k] = v
Put(d, k, v) == [x \in DOMAIN d \cup {k} |-> IF x = k THEN v ELSE d[x]]

\* the empty dict
EmptyDict == [x \in {} |-> 0]

\* IsDataTable with any() for all(): one of the three words is enough
IsDataTable_Any(table) ==
    /\ table # <<>>
    /\ LET header_text == str_lower(JoinText(table[1]))
       IN \E x \in {"lat", "lon", "wind"} : Contains(header_text, x)

\* lines 283-289: whether the table's first row selects it
IsDataTable(table) ==
    /\ table # <<>>
    /\ LET header_text == str_lower(JoinText(table[1]))
       IN \A x \in {"lat", "lon", "wind"} : Contains(header_text, x)

\* lines 282-289: the first table of the page that qualifies, <<>> when none
LocateDataTable(tables) ==
    LET hits == {i \in 1..Len(tables) : IsDataTable(tables[i])}
    IN IF hits = {} THEN <<>> ELSE tables[CHOOSE i \in hits : \A j \in hits : i <= j]

\* line 295
Headers(table) == [i \in 1..Len(table[1]) |-> Strip(table[1][i])]

\* line 307
IsPressureHeader(header_lower) == \E p \in {"pressure", "pres", "slp", "mslp"} : Contains(header_lower, p)

\* MapHeader with the wind column taken from any header containing "wind"
MapHeader_AnyWind(ci, i, header) ==
    LET header_lower == str_lower(header) IN
    IF Contains(header_lower, "lat") /\ "lat" \notin DOMAIN ci THEN Put(ci, "lat", i)
    ELSE IF Contains(header_lower, "lon") /\ "lon" \notin DOMAIN ci THEN Put(ci, "lon", i)
    ELSE IF Contains(header_lower, "wind") THEN Put(ci, "wind", i)
    ELSE IF IsPressureHeader(header_lower) THEN Put(ci, "pressure", i)
    ELSE IF Contains(header_lower, "iso_time") \/ Contains(header_lower, "time") THEN Put(ci, "time", i)
    ELSE ci

\* lines 300-310: one iteration of the header loop (i is 0-based)
MapHeader(ci, i, header) ==
    LET header_lower == str_lower(header) IN
    IF Contains(header_lower, "lat") /\ "lat" \notin DOMAIN ci THEN Put(ci, "lat", i)
    ELSE IF Contains(header_lower, "lon") /\ "lon" \notin DOMAIN ci THEN Put(ci, "lon", i)
    ELSE IF Contains(header_lower, "usa wind") THEN Put(ci, "wind", i)
    ELSE IF IsPressureHeader(header_lower) THEN Put(ci, "pressure", i)
    ELSE IF Contains(header_lower, "iso_time") \/ Contains(header_lower, "time") THEN Put(ci, "time", i)
    ELSE ci

RECURSIVE MapHeaders(_, _)
\* lines 298-310: column_indices after the first n headers
MapHeaders(headers, n) ==
    IF n = 0 THEN EmptyDict ELSE MapHeader(MapHeaders(headers, n - 1), n - 1, headers[n])

\* line 321
MaxCol(ci) == CHOOSE m \in {ci[k] : k \in DOMAIN ci} : \A k \in DOMAIN ci : ci[k] <= m

\* cells[column_indices[field]].get_text().strip()
CellText(cells, ci, field) == Strip(cells[ci[field] + 1])

\* lines 328-335 and 337-344: wind or pressure of a row
OptionalNumber(cells, ci, field) ==
    IF field \notin DOMAIN ci THEN NaN
    ELSE LET text == CellText(cells, ci, field) IN
         IF text # "" /\ text \notin {"-", ""} /\ IsFloatText(text) THEN FloatTenths(text) ELSE NaN

\* lines 350-356: full_datetime of a row whose time cell holds time_text
FullDatetime(time_text, cd) ==
    IF re_match(FULL_DATETIME_RE, time_text) THEN time_text
    ELSE IF re_match(BARE_TIME_RE, time_text) /\ cd # None THEN cd \o " " \o time_text
    ELSE time_text

\* lines 350-351: current_date after a row whose time cell holds time_text
NextCurrentDate(time_text, cd) ==
    IF re_match(FULL_DATETIME_RE, time_text) THEN SubSeq(time_text, 1, 10) ELSE cd

\* HourOf reading the minutes group of the match for the hour group
HourOf_Minutes(full_datetime) ==
    LET at == re_search(BARE_TIME_RE, full_datetime)
    IN IF at = 0 THEN -1 ELSE DigitsValue(SubSeq(full_datetime, at + 3, at + 4))

\* lines 361-363: the hour of full_datetime, -1 when the search finds none
HourOf(full_datetime) ==
    LET at == re_search(BARE_TIME_RE, full_datetime)
    IN IF at = 0 THEN -1 ELSE DigitsValue(SubSeq(full_datetime, at, at + 1))

\* Is6HourInterval keeping every third hour
Is6HourInterval_EveryThree(full_datetime) ==
    IF full_datetime # None /\ full_datetime # "" /\ HourOf(full_datetime) # -1
    THEN HourOf(full_datetime) % 3 = 0
    ELSE TRUE

\* lines 359-364
Is6HourInterval(full_datetime) ==
    IF full_datetime # None /\ full_datetime # "" /\ HourOf(full_datetime) # -1
    THEN HourOf(full_datetime) \in {0, 6, 12, 18}
    ELSE TRUE

\* RowParses without the inner try of lines 332-335: an unparseable wind
\* raises to the handler of line 375 and the row is dropped
RowParses_NoInnerTry(cells, ci) ==
    /\ Len(cells) > MaxCol(ci)
    /\ IsFloatText(CellText(cells, ci, "lat"))
    /\ IsFloatText(CellText(cells, ci, "lon"))
    /\ "wind" \in DOMAIN ci =>
          \/ CellText(cells, ci, "wind") \in {"-", ""}
          \/ IsFloatText(CellText(cells, ci, "wind"))

\* lines 323-326: whether the row reaches the optional fields (it has enough
\* cells and float() raises on neither coordinate)
RowParses(cells, ci) ==
    /\ Len(cells) > MaxCol(ci)
    /\ IsFloatText(CellText(cells, ci, "lat"))
    /\ IsFloatText(CellText(cells, ci, "lon"))

\* lines 346-356: full_datetime of the row, None without a time column
RowDatetime(cells, ci, cd) ==
    IF "time" \in DOMAIN ci THEN FullDatetime(CellText(cells, ci, "time"), cd) ELSE None

\* lines 347-351: current_date after the row
RowCurrentDate(cells, ci, cd) ==
    IF RowParses(cells, ci) /\ "time" \in DOMAIN ci
    THEN NextCurrentDate(CellText(cells, ci, "time"), cd)
    ELSE cd

\* lines 367-373: the fix of the row
RowFix(cells, ci, cd) ==
    [lat |-> FloatTenths(CellText(cells, ci, "lat")),
     lon |-> FloatTenths(CellText(cells, ci, "lon")),
     wind |-> OptionalNumber(cells, ci, "wind"),
     pressure |-> OptionalNumber(cells, ci, "pressure"),
     datetime |-> RowDatetime(cells, ci, cd)]

\* lines 323-376: whether the row is appended to storm_data
RowEmitted(cells, ci, cd) ==
    RowParses(cells, ci) /\ Is6HourInterval(RowDatetime(cells, ci, cd))

-----------------------------------------------------------------------------
(* Derived metrics: the helpers and create_storm_plot                       *)

\* get_intensity_color with <= for <: a boundary value falls in the lower band
get_intensity_color_Inclusive(wind_speed) ==
    IF IsNa(wind_speed) \/ wind_speed <= Kt(34) THEN [color |-> "#09610D", category |-> "TD"]
    ELSE IF wind_speed <= Kt(64) THEN [color |-> "#127987", category |-> "TS"]
    ELSE IF wind_speed <= Kt(83) THEN [color |-> "white", category |-> "Cat1"]
    ELSE IF wind_speed <= Kt(96) THEN [color |-> "#FF8C00", category |-> "Cat2"]
    ELSE IF wind_speed <= Kt(113) THEN [color |-> "#FF0000", category |-> "Cat3"]
    ELSE IF wind_speed <= Kt(137) THEN [color |-> "#8B008B", category |-> "Cat4"]
    ELSE [color |-> "#000000", category |-> "Cat5"]

\* lines 64-79: (color, category) of a wind speed
get_intensity_color(wind_speed) ==
    IF IsNa(wind_speed) \/ wind_speed < Kt(34) THEN [color |-> "#09610D", category |-> "TD"]
    ELSE IF wind_speed < Kt(64) THEN [color |-> "#127987", category |-> "TS"]
    ELSE IF wind_speed < Kt(83) THEN [color |-> "white", category |-> "Cat1"]
    ELSE IF wind_speed < Kt(96) THEN [color |-> "#FF8C00", category |-> "Cat2"]
    ELSE IF wind_speed < Kt(113) THEN [color |-> "#FF0000", category |-> "Cat3"]
    ELSE IF wind_speed < Kt(137) THEN [color |-> "#8B008B", category |-> "Cat4"]
    ELSE [color |-> "#000000", category |-> "Cat5"]

\* lines 81-90; the arguments are lat_min + lat_max and lon_min + lon_max
\* (twice the centre), in tenths
determine_storm_type(lat_sum, lon_sum) ==
    IF lat_sum < 0 THEN "Cyclone"
    ELSE IF lon_sum < 2 * (0 - 300) THEN "Hurricane"
    ELSE IF lon_sum > 2 * 1000 THEN "Typhoon"
    ELSE "Cyclone"

\* AceTerm with > for >=: a fix of exactly 34 kt adds nothing
AceTerm_Strict(wind) == IF ~IsNa(wind) /\ wind > Kt(34) THEN wind * wind ELSE 0

\* lines 96-97: what one wind adds to ace, in millionths
AceTerm(wind) == IF ~IsNa(wind) /\ wind >= Kt(34) THEN wind * wind ELSE 0

RECURSIVE calculate_ace_value(_)
\* lines 92-98, in millionths
calculate_ace_value(wind_speeds) ==
    IF wind_speeds = <<>> THEN 0
    ELSE calculate_ace_value(SubSeq(wind_speeds, 1, Len(wind_speeds) - 1))
         + AceTerm(wind_speeds[Len(wind_speeds)])

\* lines 100-104: int() truncates towards zero; "N/A" for nan
convert_knots_to_mph(knots) ==
    IF IsNa(knots) THEN "N/A"
    ELSE IF knots >= 0 THEN (knots * 115078) \div 1000000
    ELSE 0 - (((0 - knots) * 115078) \div 1000000)

\* a column of the DataFrame
Column(data, field) == [i \in 1..Len(data) |-> data[i][field]]

\* the values of a column that are not nan
Known(col) == {col[i] : i \in {j \in 1..Len(col) : ~IsNa(col[j])}}

SetMax(S) == CHOOSE m \in S : \A x \in S : x <= m

SetMin(S) == CHOOSE m \in S : \A x \in S : m <= x

\* Series.max(), which skips nan; nan when every value is
SeriesMax(col) == IF Known(col) = {} THEN NaN ELSE SetMax(Known(col))

\* Series.min(), which skips nan; nan when every value is
SeriesMin(col) == IF Known(col) = {} THEN NaN ELSE SetMin(Known(col))

\* line 442
HasWindData(data) == Known(Column(data, "wind")) # {}

\* lines 446-449: the category of one point
PointCategory(data, wind) ==
    IF HasWindData(data) /\ ~IsNa(wind) THEN get_intensity_color(wind).category ELSE "No Data"

\* lines 443-450
CategoriesList(data) == [i \in 1..Len(data) |-> PointCategory(data, data[i].wind)]

\* lines 389-594: the statistics create_storm_plot returns for a non-empty track
StormStats(data) ==
    LET lat == Column(data, "lat")
        lon == Column(data, "lon")
        max_wind == IF HasWindData(data) THEN SeriesMax(Column(data, "wind")) ELSE NaN
    IN [storm_type |-> determine_storm_type(SeriesMin(lat) + SeriesMax(lat), SeriesMin(lon) + SeriesMax(lon)),
        max_wind |-> max_wind,
        max_wind_mph |-> convert_knots_to_mph(max_wind),
        min_pressure |-> SeriesMin(Column(data, "pressure")),
        ace_value |-> IF HasWindData(data) THEN calculate_ace_value(Column(data, "wind")) ELSE 0,
        track_points |-> Len(data),
        duration_hours |-> Len(data) * 6,
        duration_days_x100 |-> (Len(data) * 6 * 100) \div 24,
        lat_extent |-> <<SeriesMin(lat), SeriesMax(lat)>>,
        lon_extent |-> <<SeriesMin(lon), SeriesMax(lon)>>,
        categories |-> CategoriesList(data)]

-----------------------------------------------------------------------------
(* get_storms_for_basin_year                                                *)

\* lines 30-61
BASINS ==
    [b \in {"Atlantic (NATL)", "East/Central Pacific (EPAC/CPAC)", "West Pacific (WPAC)",
            "Northern Indian Ocean (NIO)", "Southern Indian Ocean (SIO)",
            "Australian Region (AUSW/AUSE)"} |->
        CASE b = "Atlantic (NATL)" ->
               [code |-> "NATL", column_index |-> 0, column_name |-> "Northern Atlantic"]
          [] b = "East/Central Pacific (EPAC/CPAC)" ->
               [code |-> "EPAC", column_index |-> 1, column_name |-> "Eastern Pacific"]
          [] b = "West Pacific (WPAC)" ->
               [code |-> "WPAC", column_index |-> 2, column_name |-> "Western Pacific"]
          [] b = "Northern Indian Ocean (NIO)" ->
               [code |-> "NIO", column_index |-> 3, column_name |-> "Northern Indian"]
          [] b = "Southern Indian Ocean (SIO)" ->
               [code |-> "SIO", column_index |-> 4, column_name |-> "Southern Indian"]
          [] b = "Australian Region (AUSW/AUSE)" ->
               [code |-> "AUS", column_index |-> 5, column_name |-> "Southern Pacific"]]

\* the year requested, as it is formatted into the URL of line 150
Year == "2020"

\* line 150
YearPageUrl == "https://ncics.org/ibtracs/index.php?name=YearBasin-" \o Year

StartsWith(s, prefix) == Len(s) >= Len(prefix) /\ SubSeq(s, 1, Len(prefix)) = prefix

\* the last position of character c in s, 0 when it has none
LastIndexOf(s, c) ==
    LET at == {i \in 1..Len(s) : Ch(s, i) = c}
    IN IF at = {} THEN 0 ELSE CHOOSE i \in at : \A j \in at : j <= i

\* urljoin(YearPageUrl, href) for an absolute URL, a path from the root, a
\* bare query and a relative path without dot segments
urljoin(base, href) ==
    LET path_end == IF Contains(base, "?")
                    THEN (CHOOSE i \in 1..Len(base) : Ch(base, i) = "?" /\ \A j \in 1..(i - 1) : Ch(base, j) # "?") - 1
                    ELSE Len(base)
        path == SubSeq(base, 1, path_end)
    IN IF href = "" THEN base
       ELSE IF StartsWith(href, "http://") \/ StartsWith(href, "https://") THEN href
       ELSE IF StartsWith(href, "/") THEN "https://ncics.org" \o href
       ELSE IF StartsWith(href, "?") THEN path \o href
       ELSE SubSeq(path, 1, LastIndexOf(path, "/")) \o href

\* get_text() of a row of the year page
RowText(row) == JoinText([i \in 1..Len(row) |-> row[i].text])

\* get_text() of a table of the year page
TableText(table) == JoinText([i \in 1..Len(table) |-> RowText(table[i])])

\* lines 170-174
BasinCount(table) ==
    Cardinality({b \in DOMAIN BASINS : Contains(TableText(table), BASINS[b].column_name)})

\* LocateMainTable without the break of line 179: the last table that qualifies
LocateMainTable_Last(tables) ==
    LET hits == {i \in 1..Len(tables) : BasinCount(tables[i]) >= 3}
    IN IF hits = {} THEN <<>> ELSE tables[CHOOSE i \in hits : \A j \in hits : j <= i]

\* lines 162-179: the first table naming at least 3 basins, <<>> when none
LocateMainTable(tables) ==
    LET hits == {i \in 1..Len(tables) : BasinCount(tables[i]) >= 3}
    IN IF hits = {} THEN <<>> ELSE tables[CHOOSE i \in hits : \A j \in hits : i <= j]

\* lines 189-194: the 0-based index of the first row naming the basin, -1 when none
FindHeaderRow(rows, basin) ==
    LET hits == {i \in 1..Len(rows) : Contains(RowText(rows[i]), BASINS[basin].column_name)}
    IN IF hits = {} THEN -1 ELSE (CHOOSE i \in hits : \A j \in hits : i <= j) - 1

\* lines 221-224
CleanLinkName(storm_text) ==
    Strip(re_sub(DATE_RANGE2_RE, re_sub(DATE_RANGE_RE, re_sub(STAR_RE, storm_text))))

\* lines 215-233: the entries of one link
LinkStorm(link, basin) ==
    LET storm_text == Strip(link.text)
        clean_name == CleanLinkName(storm_text)
        display_name == IF clean_name # "" THEN clean_name ELSE storm_text
    IN IF Contains(link.href, "name=v04r01-") /\ storm_text # ""
       THEN << [display_name |-> display_name, storm_name |-> display_name,
                url |-> urljoin(YearPageUrl, link.href), basin |-> BASINS[basin].code] >>
       ELSE <<>>

RECURSIVE LinkStorms(_, _)
\* lines 214-233: the entries of the links of a cell, in order
LinkStorms(links, basin) ==
    IF links = <<>> THEN <<>>
    ELSE LinkStorm(Head(links), basin) \o LinkStorms(Tail(links), basin)

RECURSIVE Split(_, _)
\* str.split(sep) for a separator of one character
Split(s, sep) ==
    LET at == {i \in 1..Len(s) : Ch(s, i) = sep}
    IN IF at = {} THEN <<s>>
       ELSE LET i == CHOOSE x \in at : \A y \in at : x <= y
            IN <<SubSeq(s, 1, i - 1)>> \o Split(SubSeq(s, i + 1, Len(s)), sep)

RECURSIVE StrippedLines(_)
\* line 240: [line.strip() for line in lines if line.strip()]
StrippedLines(lines) ==
    IF lines = <<>> THEN <<>>
    ELSE (IF Strip(Head(lines)) # "" THEN <<Strip(Head(lines))>> ELSE <<>>)
         \o StrippedLines(Tail(lines))

\* lines 244-246
CleanLineName(line) == Strip(re_sub(DATE_RANGE_RE, re_sub(STAR_RE, line)))

\* the entries of one line without the length test of line 248
LineStorm_AnyLength(line, basin) ==
    LET clean_name == CleanLineName(line)
    IN IF ~re_match(DATE_LIKE_RE, line) /\ clean_name # ""
       THEN << [display_name |-> clean_name \o " (No track data)", storm_name |-> clean_name,
                url |-> None, basin |-> BASINS[basin].code] >>
       ELSE <<>>

\* lines 243-254: the entries of one line of a cell without links
LineStorm(line, basin) ==
    LET clean_name == CleanLineName(line)
    IN IF ~re_match(DATE_LIKE_RE, line) /\ clean_name # "" /\ Len(clean_name) > 1
       THEN << [display_name |-> clean_name \o " (No track data)", storm_name |-> clean_name,
                url |-> None, basin |-> BASINS[basin].code] >>
       ELSE <<>>

RECURSIVE LineStorms(_, _)
\* lines 241-254
LineStorms(lines, basin) ==
    IF lines = <<>> THEN <<>>
    ELSE LineStorm(Head(lines), basin) \o LineStorms(Tail(lines), basin)

\* lines 237-254: the entries of a cell without links
TextStorms(cell, basin) ==
    LET cell_text == Strip(cell.text)
    IN IF cell_text # "" /\ cell_text \notin {"", "-", "UNNAMED"}
       THEN LineStorms(StrippedLines(Split(cell_text, "\n")), basin)
       ELSE <<>>

\* lines 209-254: the entries of the target cell of a row
CellStorms(cell, basin) ==
    LinkStorms(cell.links, basin) \o (IF cell.links = <<>> THEN TextStorms(cell, basin) ELSE <<>>)

\* lines 202-254: the entries of a row; none when it has no target cell
RowStorms(row, basin) ==
    IF Len(row) <= BASINS[basin].column_index THEN <<>>
    ELSE CellStorms(row[BASINS[basin].column_index + 1], basin)

\* the identifier without upper()
Identifier_CaseSensitive(storm) == storm.storm_name \o "_" \o storm.basin

\* line 260
Identifier(storm) == str_upper(storm.storm_name) \o "_" \o storm.basin

RECURSIVE UniqueStorms(_)
\* lines 257-263: the first entry of each identifier, in order
UniqueStorms(list) ==
    IF list = <<>> THEN <<>>
    ELSE LET earlier == UniqueStorms(SubSeq(list, 1, Len(list) - 1))
             storm == list[Len(list)]
         IN IF \E i \in 1..Len(earlier) : Identifier(earlier[i]) = Identifier(storm)
            THEN earlier
            ELSE Append(earlier, storm)

\* the characters of the model in code point order
CodePoints == "\t\n ()*-./0123456789:?ABCDEFGHIJKLMNOPQRSTUVWXYZ_abcdefghijklmnopqrstuvwxyz"

CodeIndex == IndexOf(CodePoints)

RECURSIVE StrLess(_, _)
\* Python's a < b on str: by code point, a proper prefix first
StrLess(a, b) ==
    IF b = "" THEN FALSE
    ELSE IF a = "" THEN TRUE
    ELSE IF Ch(a, 1) # Ch(b, 1) THEN CodeIndex[Ch(a, 1)] < CodeIndex[Ch(b, 1)]
    ELSE StrLess(SubSeq(a, 2, Len(a)), SubSeq(b, 2, Len(b)))

\* the place of a new entry in a sorted list: after every entry that is not greater
InsertByName(sorted, storm) ==
    LET n == Cardinality({i \in 1..Len(sorted) : ~StrLess(storm.storm_name, sorted[i].storm_name)})
    IN SubSeq(sorted, 1, n) \o <<storm>> \o SubSeq(sorted, n + 1, Len(sorted))

RECURSIVE SortByName(_)
\* line 265: list.sort(key=storm_name), which is stable
SortByName(list) ==
    IF list = <<>> THEN <<>>
    ELSE InsertByName(SortByName(SubSeq(list, 1, Len(list) - 1)), list[Len(list)])

-----------------------------------------------------------------------------
(* Inputs of the extractor                                                  *)

\* the longest table body (data rows) under the header of ExampleHeader
MaxRows == 3

\* the longest table body under the other headers
MaxShortRows == 1

\* the longest track create_storm_plot is given on its own
MaxFixes == 3

ExampleHeader == <<"Lat", "Lon", "USA Wind", "Pressure", "ISO_TIME">>

OtherHeaders ==
    { <<"Lat", "Lon", "USA Wind", "WMO Pres", "USA Pres">>,
      <<"Lat", "Lon", "USA Wind", "USA Wind Max", "Time">>,
      <<"Time", "Lat", " Lon ", "USA WIND", "ISO_TIME">>,
      <<"LAT", "LON", "Wind", "Pressure", "Time">>,
      <<"Lat", "Lon", "USA Wind">>,
      <<"Lat/Lon", "USA Wind">>,
      <<"Name", "USA Wind", "Time">>,
      <<"Lat", "Lon", "Pressure">> }

DataRows ==
    { <<"25.0", "-75.0", "40", "1005", "2020-08-01 00:00:00">>,
      <<"25.5", "-75.5", "70", "995", "2020-08-01 06:00:00">>,
      <<"26.0", "-76.0", "50", "1000", "2020-08-01 09:00:00">>,
      <<"26.5", "-76.5", "-", "", "12:00:00">>,
      <<"N/A", "-77.0", "60", "990", "2020-08-02 00:00:00">>,
      <<"27.0", "-77.5", "20", "98x", "03:00:00">>,
      <<"27.5", "-77.0", "30", "1010", "">>,
      <<"28.0", "-78.0", "abc", "900", "unknown">>,
      <<"28.5", "-78.5">> }

RECURSIVE SeqsUpTo(_, _)
\* the sequences over S of length at most n
SeqsUpTo(S, n) ==
    IF n = 0 THEN {<<>>}
    ELSE LET shorter == SeqsUpTo(S, n - 1)
         IN shorter \cup {Append(q, x) : q \in {r \in shorter : Len(r) = n - 1}, x \in S}

\* a table without rows and a table whose first row does not select it
OtherTables == << <<>>, << <<"Basin", "Winds">>, <<"NATL", "40">> >> >>

DetailPages ==
    {[ok |-> FALSE, tables |-> <<>>], [ok |-> TRUE, tables |-> <<>>], [ok |-> TRUE, tables |-> OtherTables]}
    \cup {[ok |-> TRUE, tables |-> << <<ExampleHeader>> \o rows >>] : rows \in SeqsUpTo(DataRows, MaxRows)}
    \cup {[ok |-> TRUE, tables |-> << <<h>> \o rows >>] : h \in OtherHeaders, rows \in SeqsUpTo(DataRows, MaxShortRows)}
    \cup {[ok |-> TRUE, tables |-> OtherTables \o << <<h>> \o rows >>] :
             h \in OtherHeaders \cup {ExampleHeader}, rows \in SeqsUpTo(DataRows, 1)}

\* winds of the tracks given to create_storm_plot on its own: every band's
\* first and last whole value, values between whole knots, and nan
WindValues ==
    {NaN, 0 - Kt(10), 0, Kt(33), 339, Kt(34), Kt(63), 639, Kt(64), Kt(82), Kt(83), Kt(95),
     Kt(96), Kt(112), Kt(113), Kt(136), 1369, Kt(137), Kt(150)}

Tracks ==
    {[i \in 1..Len(w) |-> [lat |-> 250 + 5 * i, lon |-> 0 - 750, wind |-> w[i],
                           pressure |-> NaN, datetime |-> None]] :
        w \in SeqsUpTo(WindValues, MaxFixes) \ {<<>>}}

-----------------------------------------------------------------------------
(* Inputs of the catalog resolver: a cell of the year page is its text and  *)
(* its anchors that carry an href, each with its href and its text.         *)

MaxCatRows == 2

TextCell(text) == [text |-> text, links |-> <<>>]

LinkCell(text, href) == [text |-> text, links |-> <<[href |-> href, text |-> text]>>]

TwoLinkCell(t1, h1, t2, h2) ==
    [text |-> t1 \o "\n" \o t2, links |-> <<[href |-> h1, text |-> t1], [href |-> h2, text |-> t2]>>]

\* the header row of the year page: one cell per basin, in column order
CatHeader ==
    << TextCell("Northern Atlantic"), TextCell("Eastern Pacific"), TextCell("Western Pacific"),
       TextCell("Northern Indian"), TextCell("Southern Indian"), TextCell("Southern Pacific") >>

\* a header row that names three basins only
CatHeaderPart == SubSeq(CatHeader, 1, 3)

\* a row above the header row that carries a storm link
TitleRow == << TextCell("Storms of 2020"), LinkCell("OMEGA", "index.php?name=v04r01-O9") >>

CatRows ==
    { << LinkCell("ALPHA", "index.php?name=v04r01-A1"),
         TextCell("beta\nAug 5-Aug 9\nA"),
         LinkCell("Gamma* Aug 5-12", "/ibtracs/index.php?name=v04r01-G1"),
         TextCell("-"),
         TextCell("UNNAMED"),
         TwoLinkCell("DELTA", "?name=v04r01-D1", "delta Sep 1-Oct 2", "index.php?name=v04r01-D2") >>,
      << TextCell("Alpha"),
         LinkCell("BETA", "index.php?name=v04r01-B1"),
         TextCell("delta"),
         TextCell("Bob 2"),
         TextCell("*"),
         LinkCell("About", "about.html") >>,
      << LinkCell("Alpha* Aug 5-12", "index.php?name=v04r01-A2"),
         TextCell(" Beta * Aug 1-3 "),
         TextCell(""),
         TextCell("Zulu\n\nalpha"),
         TextCell("UNNAMED\nEpsilon"),
         LinkCell(" ", "index.php?name=v04r01-E1") >>,
      << LinkCell("Bravo", "https://ncics.org/ibtracs/index.php?name=v04r01-B2"),
         TextCell("Beta*"),
         LinkCell("Eta Sep 30-Oct 2", "index.php?name=v04r01-E2"),
         TextCell("Aug 5"),
         TextCell("A\nXi* "),
         TextCell("Omicron Oct 1-9") >>,
      << TextCell("zeta") >> }

\* a table that names two basins only, and a second table that names them all
DecoyTable ==
    << <<TextCell("Northern Atlantic"), TextCell("Eastern Pacific")>>,
       <<LinkCell("DECOY", "index.php?name=v04r01-X1"), LinkCell("DECOY", "index.php?name=v04r01-X1")>> >>

SecondTable == << CatHeader, [i \in 1..6 |-> LinkCell("SECOND", "index.php?name=v04r01-S1")] >>

YearPages ==
    {[ok |-> FALSE, tables |-> <<>>], [ok |-> TRUE, tables |-> <<>>], [ok |-> TRUE, tables |-> <<DecoyTable>>]}
    \cup {[ok |-> TRUE, tables |-> << above \o <<h>> \o rows >>] :
             above \in {<<>>, <<TitleRow>>}, h \in {CatHeader, CatHeaderPart},
             rows \in SeqsUpTo(CatRows, MaxCatRows)}
    \cup {[ok |-> TRUE, tables |-> << DecoyTable, above \o <<CatHeader>> \o rows, SecondTable >>] :
             above \in {<<>>, <<TitleRow>>}, rows \in SeqsUpTo(CatRows, 1)}

-----------------------------------------------------------------------------
(* Actions of the extractor and of the plot                                 *)

\* the history of a run before anything was called
NewRun ==
    [started_at |-> 0, cat_fetch |-> "none", cat_before |-> <<>>, key_failed |-> FALSE,
     track_fetch |-> "none", track_before |-> <<>>, url_raised |-> FALSE,
     extract_called |-> FALSE, plot_called |-> FALSE]

MainIdle ==
    /\ now = 0
    /\ catalog_cache = EmptyDict
    /\ track_cache = EmptyDict
    /\ main_pc = "off"
    /\ selected_basin = None
    /\ main_storms = <<>>
    /\ selected_storm_display = ""
    /\ generate_button = FALSE
    /\ notice = None
    /\ fig = None
    /\ figure = "none"
    /\ failed_keys = {}
    /\ raised_urls = {}
    /\ run = NewRun

CatalogIdle ==
    /\ year_page = [ok |-> FALSE, tables |-> <<>>]
    /\ basin_name = None
    /\ cat_pc = "idle"
    /\ main_table = <<>>
    /\ header_row_index = -1
    /\ cat_row = 0
    /\ storms = <<>>
    /\ storm_rows = <<>>
    /\ catalog = None

Init ==
    /\ page \in DetailPages
    /\ pc = "fetch"
    /\ data_table = <<>>
    /\ column_indices = EmptyDict
    /\ row_i = 0
    /\ storm_data = <<>>
    /\ current_date = None
    /\ err = None
    /\ stats = None
    /\ fix_rows = <<>>
    /\ CatalogIdle
    /\ MainIdle

\* line 384: every exception leaves extract_storm_data as this ValueError
Raise(message) ==
    /\ err' = "Error extracting storm data: " \o message
    /\ pc' = "raised"

\* lines 277-292: fetch the page and locate the data table
FetchAndLocate ==
    /\ pc = "fetch"
    /\ IF ~page.ok
       THEN Raise("fetch failed") /\ UNCHANGED data_table
       ELSE /\ data_table' = LocateDataTable(page.tables)
            /\ IF data_table' = <<>>
               THEN Raise("Could not find storm data table")
               ELSE pc' = "map" /\ UNCHANGED err
    /\ UNCHANGED <<page, column_indices, row_i, storm_data, current_date, stats, fix_rows>>
    /\ UNCHANGED catalog_vars
    /\ UNCHANGED main_vars

\* lines 295-313: map the header cells to the semantic columns
MapColumns ==
    /\ pc = "map"
    /\ column_indices' = MapHeaders(Headers(data_table), Len(data_table[1]))
    /\ IF "lat" \notin DOMAIN column_indices' \/ "lon" \notin DOMAIN column_indices'
       THEN Raise("Required LAT/LON columns not found") /\ UNCHANGED row_i
       ELSE pc' = "rows" /\ row_i' = 2 /\ UNCHANGED err
    /\ UNCHANGED <<page, data_table, storm_data, current_date, stats, fix_rows>>
    /\ UNCHANGED catalog_vars
    /\ UNCHANGED main_vars

\* lines 319-376: one iteration of the loop over the data rows
ProcessRow ==
    /\ pc = "rows"
    /\ row_i <= Len(data_table)
    /\ LET cells == data_table[row_i]
           emitted == RowEmitted(cells, column_indices, current_date)
       IN /\ current_date' = RowCurrentDate(cells, column_indices, current_date)
          /\ storm_data' = IF emitted
                           THEN Append(storm_data, RowFix(cells, column_indices, current_date))
                           ELSE storm_data
          /\ fix_rows' = IF emitted THEN Append(fix_rows, row_i) ELSE fix_rows
    /\ row_i' = row_i + 1
    /\ UNCHANGED <<page, pc, data_table, column_indices, err, stats>>
    /\ UNCHANGED catalog_vars
    /\ UNCHANGED main_vars

\* lines 378-381: the end of the loop
ExtractReturn ==
    /\ pc = "rows"
    /\ row_i > Len(data_table)
    /\ IF storm_data = <<>>
       THEN Raise("No valid storm data found")
       ELSE pc' = "plot" /\ UNCHANGED err
    /\ UNCHANGED <<page, data_table, column_indices, row_i, storm_data, current_date, stats, fix_rows>>
    /\ UNCHANGED catalog_vars
    /\ UNCHANGED main_vars

\* lines 386-594: create_storm_plot on the extracted track
CreateStormPlot ==
    /\ pc = "plot"
    /\ stats' = StormStats(storm_data)
    /\ pc' = "done"
    /\ UNCHANGED <<page, data_table, column_indices, row_i, storm_data, current_date, err, fix_rows>>
    /\ UNCHANGED catalog_vars
    /\ UNCHANGED main_vars

Next ==
    \/ FetchAndLocate
    \/ MapColumns
    \/ ProcessRow
    \/ ExtractReturn
    \/ CreateStormPlot

Spec == Init /\ [][Next]_vars

\* create_storm_plot on its own, given every track of Tracks
InitMetrics ==
    /\ page = [ok |-> TRUE, tables |-> <<>>]
    /\ pc = "plot"
    /\ data_table = <<>>
    /\ column_indices = EmptyDict
    /\ row_i = 0
    /\ storm_data \in Tracks
    /\ current_date = None
    /\ err = None
    /\ stats = None
    /\ fix_rows = <<>>
    /\ CatalogIdle
    /\ MainIdle

NextMetrics == CreateStormPlot

SpecMetrics == InitMetrics /\ [][NextMetrics]_vars

-----------------------------------------------------------------------------
(* Actions of the catalog resolver                                          *)

ExtractIdle ==
    /\ page = [ok |-> FALSE, tables |-> <<>>]
    /\ pc = "idle"
    /\ data_table = <<>>
    /\ column_indices = EmptyDict
    /\ row_i = 0
    /\ storm_data = <<>>
    /\ current_date = None
    /\ err = None
    /\ stats = None
    /\ fix_rows = <<>>

InitCatalog ==
    /\ year_page \in YearPages
    /\ basin_name \in DOMAIN BASINS
    /\ cat_pc = "fetch"
    /\ main_table = <<>>
    /\ header_row_index = -1
    /\ cat_row = 0
    /\ storms = <<>>
    /\ storm_rows = <<>>
    /\ catalog = None
    /\ ExtractIdle
    /\ MainIdle

\* return []
ReturnEmpty ==
    /\ catalog' = <<>>
    /\ cat_pc' = "done"

\* lines 152-183; a failed fetch raises and line 271 returns []
FetchYearPage ==
    /\ cat_pc = "fetch"
    /\ IF ~year_page.ok \/ LocateMainTable(year_page.tables) = <<>>
       THEN ReturnEmpty /\ UNCHANGED main_table
       ELSE /\ main_table' = LocateMainTable(year_page.tables)
            /\ cat_pc' = "header"
            /\ UNCHANGED catalog
    /\ UNCHANGED <<year_page, basin_name, header_row_index, cat_row, storms, storm_rows>>
    /\ UNCHANGED extract_vars
    /\ UNCHANGED main_vars

\* lines 186-198
LocateHeaderRow ==
    /\ cat_pc = "header"
    /\ header_row_index' = FindHeaderRow(main_table, basin_name)
    /\ IF header_row_index' = -1
       THEN ReturnEmpty /\ UNCHANGED cat_row
       ELSE /\ cat_row' = header_row_index' + 1
            /\ cat_pc' = "rows"
            /\ UNCHANGED catalog
    /\ UNCHANGED <<year_page, basin_name, main_table, storms, storm_rows>>
    /\ UNCHANGED extract_vars
    /\ UNCHANGED main_vars

\* lines 201-254: one turn of the loop over the rows after the header
ProcessCatalogRow ==
    /\ cat_pc = "rows"
    /\ cat_row < Len(main_table)
    /\ LET found == RowStorms(main_table[cat_row + 1], basin_name)
       IN /\ storms' = storms \o found
          /\ storm_rows' = storm_rows \o [i \in 1..Len(found) |-> cat_row]
    /\ cat_row' = cat_row + 1
    /\ UNCHANGED <<year_page, basin_name, cat_pc, main_table, header_row_index, catalog>>
    /\ UNCHANGED extract_vars
    /\ UNCHANGED main_vars

\* lines 256-267
ReturnCatalog ==
    /\ cat_pc = "rows"
    /\ cat_row >= Len(main_table)
    /\ catalog' = SortByName(UniqueStorms(storms))
    /\ cat_pc' = "done"
    /\ UNCHANGED <<year_page, basin_name, main_table, header_row_index, cat_row, storms, storm_rows>>
    /\ UNCHANGED extract_vars
    /\ UNCHANGED main_vars

NextCatalog ==
    \/ FetchYearPage
    \/ LocateHeaderRow
    \/ ProcessCatalogRow
    \/ ReturnCatalog

SpecCatalog == InitCatalog /\ [][NextCatalog]_vars

-----------------------------------------------------------------------------
(* main: one run of the script per user interaction, with the two caches    *)
(* of st.cache_data. A call of a cached function is one step.               *)

RECURSIVE TableStorms(_, _, _)
\* lines 201-254: the entries of the rows from row r (0-based) on
TableStorms(rows, basin, r) ==
    IF r >= Len(rows) THEN <<>>
    ELSE RowStorms(rows[r + 1], basin) \o TableStorms(rows, basin, r + 1)

\* lines 147-271: the list returned for the year page fetched
get_storms_for_basin_year(fetched, basin) ==
    IF ~fetched.ok THEN <<>>
    ELSE LET table == LocateMainTable(fetched.tables)
         IN IF table = <<>> THEN <<>>
            ELSE LET header == FindHeaderRow(table, basin)
                 IN IF header = -1 THEN <<>>
                    ELSE SortByName(UniqueStorms(TableStorms(table, basin, header + 1)))

RECURSIVE ExtractRows(_, _, _, _)
\* lines 319-376: the fixes of the rows from row r (1-based) on
ExtractRows(table, ci, r, cd) ==
    IF r > Len(table) THEN <<>>
    ELSE (IF RowEmitted(table[r], ci, cd) THEN <<RowFix(table[r], ci, cd)>> ELSE <<>>)
         \o ExtractRows(table, ci, r + 1, RowCurrentDate(table[r], ci, cd))

\* line 384
Raised(text) == [raised |-> TRUE, error |-> "Error extracting storm data: " \o text, value |-> <<>>]

\* lines 274-384: the track returned for the detail page fetched, or the error raised
extract_storm_data(fetched) ==
    IF ~fetched.ok THEN Raised("fetch failed")
    ELSE LET table == LocateDataTable(fetched.tables)
         IN IF table = <<>> THEN Raised("Could not find storm data table")
            ELSE LET ci == MapHeaders(Headers(table), Len(table[1]))
                 IN IF "lat" \notin DOMAIN ci \/ "lon" \notin DOMAIN ci
                    THEN Raised("Required LAT/LON columns not found")
                    ELSE LET fixes == ExtractRows(table, ci, 2, None)
                         IN IF fixes = <<>> THEN Raised("No valid storm data found")
                            ELSE [raised |-> FALSE, error |-> None, value |-> fixes]

\* line 146: ttl of the cache of get_storms_for_basin_year, in seconds
CATALOG_TTL == 7200

\* line 273: ttl of the cache of extract_storm_data, in seconds
TRACK_TTL == 3600

\* the entry stored under the key: <<>> when none, else <<entry>>
Lookup(cache, key) == IF key \in DOMAIN cache THEN <<cache[key]>> ELSE <<>>

\* whether a looked-up entry is used: one is stored and its ttl has not passed
Fresh(found, ttl) == found # <<>> /\ now < found[1].stored_at + ttl

\* the catalog cache that keeps no empty list
CacheCatalog_SkipEmpty(cache, key, value) ==
    IF value = <<>> THEN cache ELSE Put(cache, key, [value |-> value, stored_at |-> now])

\* line 146: the value returned is stored under the arguments of the call
CacheCatalog(cache, key, value) == Put(cache, key, [value |-> value, stored_at |-> now])

\* line 273: the value returned is stored under the argument of the call
CacheTrack(cache, url, value) == Put(cache, url, [value |-> value, stored_at |-> now])

\* line 638: the keys of storm_options
DisplayNames(list) == {list[i].display_name : i \in 1..Len(list)}

\* lines 638 and 659: storm_options[display]; of two entries with one
\* display name the dict keeps the later
StormOption(list, display) ==
    list[CHOOSE i \in 1..Len(list) :
            /\ list[i].display_name = display
            /\ \A j \in (i + 1)..Len(list) : list[j].display_name # display]

\* the test of line 662 taking every entry as one with track data
HasTrackData_Always(storm) == TRUE

\* line 662: selected_storm['url'] is None leads to the no-track-data branch
HasTrackData(storm) == storm.url # None

\* line 663, without its leading symbol
NoTrackMessage == "This storm has no available track data in IBTrACS."

\* line 688, without its leading symbol
SuccessMessage == "Storm track plot generated successfully!"

\* line 692, without its leading symbol
PlotError(e) == "Error generating plot: " \o e

\* line 652, its first words
NoStormsMessage == "No storms found"

MaxTicks == 4

\* the step of the clock: half the shorter ttl
TickSeconds == TRACK_TTL \div 2

\* the basins chosen in the model
MainBasins == {"Atlantic (NATL)", "East/Central Pacific (EPAC/CPAC)"}

\* what the fetch of the year page gives: a failure, or a table with one
\* linked storm per basin and, for the Eastern Pacific, a storm without link
MainYearPages ==
    {[ok |-> FALSE, tables |-> <<>>],
     [ok |-> TRUE,
      tables |-> << << CatHeader,
                       << LinkCell("ALPHA", "index.php?name=v04r01-A1"),
                          TextCell("beta\nAug 5-Aug 9\nA") >>,
                       << TextCell(""),
                          LinkCell("GAMMA", "index.php?name=v04r01-G1") >> >> >>]}

\* what the fetch of a detail page gives: a failure, a page without a data
\* table, or a table of two fixes
MainDetailPages ==
    {[ok |-> FALSE, tables |-> <<>>],
     [ok |-> TRUE, tables |-> OtherTables],
     [ok |-> TRUE,
      tables |-> << << ExampleHeader,
                       <<"25.0", "-75.0", "40", "1005", "2020-08-01 00:00:00">>,
                       <<"25.5", "-75.5", "70", "995", "06:00:00">> >> >>]}

InitMain ==
    /\ now = 0
    /\ catalog_cache = EmptyDict
    /\ track_cache = EmptyDict
    /\ main_pc = "idle"
    /\ selected_basin = None
    /\ main_storms = <<>>
    /\ selected_storm_display = ""
    /\ generate_button = FALSE
    /\ notice = None
    /\ fig = None
    /\ figure = "none"
    /\ failed_keys = {}
    /\ raised_urls = {}
    /\ run = NewRun
    /\ ExtractIdle
    /\ CatalogIdle

\* time passes between two runs of the script
Tick ==
    /\ main_pc \in {"idle", "done"}
    /\ now < MaxTicks * TickSeconds
    /\ now' = now + TickSeconds
    /\ UNCHANGED <<catalog_cache, track_cache, main_pc, selected_basin, main_storms,
                   selected_storm_display, generate_button, notice, fig, figure,
                   failed_keys, raised_urls, run>>
    /\ UNCHANGED <<extract_vars, catalog_vars>>

\* lines 599-630: a user interaction starts a run of the script
StartRun ==
    /\ main_pc \in {"idle", "done"}
    /\ selected_basin' \in MainBasins
    /\ main_storms' = <<>>
    /\ selected_storm_display' = ""
    /\ generate_button' = FALSE
    /\ notice' = None
    /\ fig' = None
    /\ figure' = "none"
    /\ stats' = None
    /\ storm_data' = <<>>
    /\ run' = [NewRun EXCEPT !.started_at = now]
    /\ main_pc' = "catalog"
    /\ UNCHANGED <<now, catalog_cache, track_cache, failed_keys, raised_urls>>
    /\ UNCHANGED <<page, pc, data_table, column_indices, row_i, current_date, err, fix_rows>>
    /\ UNCHANGED catalog_vars

\* line 635: the cached call of get_storms_for_basin_year
LoadStorms ==
    /\ main_pc = "catalog"
    /\ LET key == <<selected_basin, Year>>
           found == Lookup(catalog_cache, key)
           seen == [run EXCEPT !.cat_before = found, !.key_failed = key \in failed_keys]
       IN IF Fresh(found, CATALOG_TTL)
          THEN /\ main_storms' = found[1].value
               /\ run' = seen
               /\ UNCHANGED <<catalog_cache, failed_keys>>
          ELSE \E fetched \in MainYearPages :
                  LET value == get_storms_for_basin_year(fetched, selected_basin)
                  IN /\ main_storms' = value
                     /\ catalog_cache' = CacheCatalog(catalog_cache, key, value)
                     /\ failed_keys' = IF fetched.ok THEN failed_keys \ {key} ELSE failed_keys \cup {key}
                     /\ run' = [seen EXCEPT !.cat_fetch = IF fetched.ok THEN "ok" ELSE "failed"]
    /\ main_pc' = "select"
    /\ UNCHANGED <<now, track_cache, selected_basin, selected_storm_display, generate_button,
                   notice, fig, figure, raised_urls>>
    /\ UNCHANGED <<extract_vars, catalog_vars>>

\* lines 637-664: the storm chosen and the button, up to the test of the url
SelectStorm ==
    /\ main_pc = "select"
    /\ IF main_storms = <<>>
       THEN /\ notice' = NoStormsMessage
            /\ main_pc' = "done"
            /\ UNCHANGED <<selected_storm_display, generate_button>>
       ELSE \E display \in {""} \cup DisplayNames(main_storms), pressed \in BOOLEAN :
               /\ selected_storm_display' = display
               /\ generate_button' = pressed
               /\ IF pressed /\ display # ""
                  THEN IF HasTrackData(StormOption(main_storms, display))
                       THEN main_pc' = "extract" /\ UNCHANGED notice
                       ELSE main_pc' = "done" /\ notice' = NoTrackMessage
                  ELSE main_pc' = "done" /\ UNCHANGED notice
    /\ UNCHANGED <<now, catalog_cache, track_cache, selected_basin, main_storms, fig, figure,
                   failed_keys, raised_urls, run>>
    /\ UNCHANGED <<extract_vars, catalog_vars>>

\* line 673: the cached call of extract_storm_data; what it raises goes to
\* the handler of lines 691-695, where fig is None
LoadTrack ==
    /\ main_pc = "extract"
    /\ LET url == StormOption(main_storms, selected_storm_display).url
           found == Lookup(track_cache, url)
           seen == [run EXCEPT !.extract_called = TRUE, !.track_before = found,
                               !.url_raised = url \in raised_urls]
       IN IF Fresh(found, TRACK_TTL)
          THEN /\ storm_data' = found[1].value
               /\ run' = seen
               /\ main_pc' = "plot"
               /\ UNCHANGED <<track_cache, raised_urls, notice>>
          ELSE \E fetched \in MainDetailPages :
                  LET result == extract_storm_data(fetched)
                  IN IF result.raised
                     THEN /\ notice' = PlotError(result.error)
                          /\ raised_urls' = raised_urls \cup {url}
                          /\ run' = [seen EXCEPT !.track_fetch = "raised"]
                          /\ main_pc' = "done"
                          /\ UNCHANGED <<track_cache, storm_data>>
                     ELSE /\ storm_data' = result.value
                          /\ track_cache' = CacheTrack(track_cache, url, result.value)
                          /\ raised_urls' = raised_urls \ {url}
                          /\ run' = [seen EXCEPT !.track_fetch = "ok"]
                          /\ main_pc' = "plot"
                          /\ UNCHANGED notice
    /\ UNCHANGED <<now, catalog_cache, selected_basin, main_storms, selected_storm_display,
                   generate_button, fig, figure, failed_keys>>
    /\ UNCHANGED <<page, pc, data_table, column_indices, row_i, current_date, err, stats, fix_rows>>
    /\ UNCHANGED catalog_vars

\* lines 676-681 and 389-597: create_storm_plot. The figure is created at
\* line 412; a call after it may raise, which line 597 raises again and the
\* handler of lines 691-695 receives with fig still None.
RenderPlot ==
    /\ main_pc = "plot"
    /\ figure' = "open"
    /\ run' = [run EXCEPT !.plot_called = TRUE]
    /\ \E drawn \in BOOLEAN :
          IF drawn
          THEN /\ fig' = "fig"
               /\ stats' = StormStats(storm_data)
               /\ main_pc' = "display"
               /\ UNCHANGED notice
          ELSE /\ notice' = PlotError("Error creating storm plot: ")
               /\ main_pc' = "done"
               /\ UNCHANGED <<fig, stats>>
    /\ UNCHANGED <<now, catalog_cache, track_cache, selected_basin, main_storms,
                   selected_storm_display, generate_button, failed_keys, raised_urls>>
    /\ UNCHANGED <<page, pc, data_table, column_indices, row_i, storm_data, current_date, err, fix_rows>>
    /\ UNCHANGED catalog_vars

\* lines 684-695: st.pyplot, then plt.close(fig); when st.pyplot raises the
\* handler closes fig, which is not None
ShowPlot ==
    /\ main_pc = "display"
    /\ figure' = IF fig # None THEN "closed" ELSE figure
    /\ \E shown \in BOOLEAN :
          notice' = IF shown THEN SuccessMessage ELSE PlotError("st.pyplot")
    /\ main_pc' = "done"
    /\ UNCHANGED <<now, catalog_cache, track_cache, selected_basin, main_storms,
                   selected_storm_display, generate_button, fig, failed_keys, raised_urls, run>>
    /\ UNCHANGED <<extract_vars, catalog_vars>>

NextMain ==
    \/ Tick
    \/ StartRun
    \/ LoadStorms
    \/ SelectStorm
    \/ LoadTrack
    \/ RenderPlot
    \/ ShowPlot

SpecMain == InitMain /\ [][NextMain]_vars

-----------------------------------------------------------------------------
(* Properties of the derived metrics (SpecMetrics)                          *)

\* the bands of the Saffir-Simpson scale, in knots: <<first, first of the next, name>>
Bands ==
    << <<0, 34, "TD">>, <<34, 64, "TS">>, <<64, 83, "Cat1">>, <<83, 96, "Cat2">>,
       <<96, 113, "Cat3">>, <<113, 137, "Cat4">>, <<137, 100000, "Cat5">> >>

InBand(w, b) == Kt(Bands[b][1]) <= w /\ w < Kt(Bands[b][2])

BandNames == {Bands[b][3] : b \in 1..Len(Bands)}

\* C1: every known wind w >= 0 gets the category of the one half-open band
\* [0,34), [34,64), [64,83), [83,96), [96,113), [113,137), [137,inf) holding it
\* (a boundary value belongs to the higher band), and a fix with unknown wind
\* gets "No Data" and none of the seven bands.
C1_CategoryBands ==
    pc = "done" =>
        /\ Len(stats.categories) = Len(storm_data)
        /\ \A i \in 1..Len(storm_data) :
              LET w == storm_data[i].wind
                  c == stats.categories[i]
              IN /\ IsNa(w) => c = "No Data" /\ c \notin BandNames
                 /\ (~IsNa(w) /\ w >= 0) =>
                       /\ c \in BandNames
                       /\ \A b \in 1..Len(Bands) : (c = Bands[b][3]) <=> InBand(w, b)

\* a track with winds 34, 64 and unknown was categorised TS, Cat1, No Data
C1_Witness ==
    /\ pc = "done"
    /\ Len(storm_data) = 3
    /\ storm_data[1].wind = Kt(34) /\ stats.categories[1] = "TS"
    /\ storm_data[2].wind = Kt(64) /\ stats.categories[2] = "Cat1"
    /\ IsNa(storm_data[3].wind) /\ stats.categories[3] = "No Data"

\* the indices of the fixes that count for ACE: wind known and >= 34 kt
Counting(data) == {i \in 1..Len(data) : ~IsNa(data[i].wind) /\ data[i].wind >= Kt(34)}

RECURSIVE SumSquares(_, _)
\* the sum of wind^2 over the fixes of data with index in I
SumSquares(data, I) ==
    IF I = {} THEN 0
    ELSE LET i == CHOOSE j \in I : TRUE
         IN data[i].wind * data[i].wind + SumSquares(data, I \ {i})

\* the ACE create_storm_plot reports for a track
AceOf(data) == StormStats(data).ace_value

\* C2: ACE is the sum of wind^2/10000 over exactly the fixes with known
\* wind >= 34; it is never negative, appending a fix never decreases it, a
\* fix with wind < 34 or unknown wind leaves it unchanged, and a track whose
\* winds are all < 34 has ACE 0.
C2_Ace ==
    pc = "done" =>
        /\ stats.ace_value = SumSquares(storm_data, Counting(storm_data))
        /\ stats.ace_value >= 0
        /\ \A k \in 1..(Len(storm_data) - 1) :
              LET before == AceOf(SubSeq(storm_data, 1, k))
                  after == AceOf(SubSeq(storm_data, 1, k + 1))
                  w == storm_data[k + 1].wind
              IN /\ after >= before
                 /\ (IsNa(w) \/ w < Kt(34)) => after = before
        /\ (\A i \in 1..Len(storm_data) : ~IsNa(storm_data[i].wind) /\ storm_data[i].wind < Kt(34))
              => stats.ace_value = 0

\* a track of winds 64, 33 and unknown has the ACE of its first fix alone
C2_Witness ==
    /\ pc = "done"
    /\ Len(storm_data) = 3
    /\ storm_data[1].wind = Kt(64)
    /\ storm_data[2].wind = Kt(33)
    /\ IsNa(storm_data[3].wind)
    /\ stats.ace_value = 640 * 640

-----------------------------------------------------------------------------
(* Properties of the extractor (Spec)                                       *)

TableNotFound == "Error extracting storm data: Could not find storm data table"

RequiredColumnsMissing == "Error extracting storm data: Required LAT/LON columns not found"

NoValidFixes == "Error extracting storm data: No valid storm data found"

\* extract_storm_data has returned or raised
Finished == pc \in {"raised", "plot", "done"}

FailedWith(kind) == pc = "raised" /\ err = kind

\* the data rows the loop has visited
Processed == 2..(row_i - 1)

\* the row was appended to storm_data
Emitted(r) == \E k \in 1..Len(fix_rows) : fix_rows[k] = r

\* the fix of an emitted row
FixOf(r) == storm_data[CHOOSE k \in 1..Len(fix_rows) : fix_rows[k] = r]

\* the row has a cell in the column of the field
HasCell(cells, f) == f \in DOMAIN column_indices /\ Len(cells) > column_indices[f]

TextOf(cells, f) == Strip(cells[column_indices[f] + 1])

\* the row has a latitude and a longitude cell and both parse as numbers
ValidLatLon(cells) ==
    /\ HasCell(cells, "lat") /\ IsFloatText(TextOf(cells, "lat"))
    /\ HasCell(cells, "lon") /\ IsFloatText(TextOf(cells, "lon"))

\* the row has a cell in every mapped column
Covers(cells) == \A f \in DOMAIN column_indices : Len(cells) > column_indices[f]

\* the time text of the row yields no hour: no time column, or a time cell
\* (empty, unparseable) in which no HH:MM:SS is found
NoHour(cells) ==
    \/ "time" \notin DOMAIN column_indices
    \/ HasCell(cells, "time") /\ re_search(BARE_TIME_RE, TextOf(cells, "time")) = 0

\* the time text of the row yields an hour
YieldsHour(cells) == HasCell(cells, "time") /\ re_search(BARE_TIME_RE, TextOf(cells, "time")) # 0

\* the hour the time text of the row yields
TextHour(cells) ==
    LET t == TextOf(cells, "time")
        at == re_search(BARE_TIME_RE, t)
    IN DigitVal(Ch(t, at)) * 10 + DigitVal(Ch(t, at + 1))

SynopticHours == {0, 6, 12, 18}

SomeHeader(hdr, word) == \E i \in 1..Len(hdr) : Contains(str_lower(hdr[i]), word)

\* the text of the table's first row contains lat, lon and wind
TextQualifies(table) ==
    /\ Len(table) > 0
    /\ Contains(str_lower(JoinText(table[1])), "lat")
    /\ Contains(str_lower(JoinText(table[1])), "lon")
    /\ Contains(str_lower(JoinText(table[1])), "wind")

\* the header cell latitude is mapped from: the first that contains "lat"
LatCell(hdr) == CHOOSE i \in 1..Len(hdr) :
                   /\ Contains(str_lower(Strip(hdr[i])), "lat")
                   /\ \A j \in 1..(i - 1) : ~Contains(str_lower(Strip(hdr[j])), "lat")

\* the header cells leave latitude or longitude unmapped
LeavesUnmapped(hdr) ==
    \/ ~SomeHeader(hdr, "lat")
    \/ \A i \in 1..Len(hdr) : Contains(str_lower(hdr[i]), "lon") => i = LatCell(hdr)

\* a page with one table, which has a header row
OneTable == page.ok /\ Len(page.tables) = 1 /\ Len(page.tables[1]) > 0

\* the first header cell containing the word (1-based), 0 when none
FirstHeader(hdr, word) ==
    IF SomeHeader(hdr, word)
    THEN CHOOSE i \in 1..Len(hdr) :
            /\ Contains(str_lower(hdr[i]), word)
            /\ \A j \in 1..(i - 1) : ~Contains(str_lower(hdr[j]), word)
    ELSE 0

\* the row's cells under the first lat and the first lon header both parse
ParsesUnder(hdr, cells) ==
    /\ Len(cells) >= FirstHeader(hdr, "lat") /\ IsFloatText(cells[FirstHeader(hdr, "lat")])
    /\ Len(cells) >= FirstHeader(hdr, "lon") /\ IsFloatText(cells[FirstHeader(hdr, "lon")])

C4_AsClaimed ==
    row_i >= 2 =>
        /\ \A k \in 1..Len(fix_rows) :
              LET cells == data_table[fix_rows[k]]
              IN YieldsHour(cells) => TextHour(cells) \in SynopticHours
        /\ \A r \in Processed :
              (ValidLatLon(data_table[r]) /\ NoHour(data_table[r])) => Emitted(r)

\* C4 as amended: every fix whose time text yields an hour has hour 0, 6, 12
\* or 18, and every row with enough cells to cover every mapped column, valid
\* latitude and longitude, whose time text yields no hour is emitted.
C4_SynopticFilter ==
    row_i >= 2 =>
        /\ \A k \in 1..Len(fix_rows) :
              LET cells == data_table[fix_rows[k]]
              IN YieldsHour(cells) => TextHour(cells) \in SynopticHours
        /\ \A r \in Processed :
              (Covers(data_table[r]) /\ ValidLatLon(data_table[r]) /\ NoHour(data_table[r]))
                 => Emitted(r)

\* a valid row of hour 3 was dropped and a valid row with an unparseable time
\* text and one with hour 12 were emitted
C4_Witness ==
    /\ "time" \in DOMAIN column_indices
    /\ \E r1, r2, r3 \in Processed :
          /\ Covers(data_table[r1]) /\ ValidLatLon(data_table[r1])
          /\ YieldsHour(data_table[r1]) /\ TextHour(data_table[r1]) = 3
          /\ ~Emitted(r1)
          /\ ValidLatLon(data_table[r2])
          /\ HasCell(data_table[r2], "time") /\ TextOf(data_table[r2], "time") = "unknown"
          /\ Emitted(r2)
          /\ YieldsHour(data_table[r3]) /\ TextHour(data_table[r3]) = 12
          /\ Emitted(r3)

ExamplePage ==
    [ok |-> TRUE,
     tables |-> << << ExampleHeader,
                      <<"25.0", "-75.0", "40", "1005", "2020-08-01 00:00:00">>,
                      <<"25.5", "-75.5", "70", "995", "2020-08-01 06:00:00">>,
                      <<"26.0", "-76.0", "50", "1000", "2020-08-01 09:00:00">> >> >>]

\* C6: on the example table extraction yields exactly the first two rows as
\* fixes, and max_wind = 70, category_per_fix = [TS, Cat1], ACE = 0.65,
\* duration_hours = 12 and duration_days = 0.5.
C6_EndToEnd ==
    page = ExamplePage =>
        /\ pc # "raised"
        /\ pc \in {"plot", "done"} =>
              storm_data =
                 << [lat |-> 250, lon |-> 0 - 750, wind |-> 400, pressure |-> 10050,
                     datetime |-> "2020-08-01 00:00:00"],
                    [lat |-> 255, lon |-> 0 - 755, wind |-> 700, pressure |-> 9950,
                     datetime |-> "2020-08-01 06:00:00"] >>
        /\ pc = "done" =>
              /\ stats.max_wind = 700
              /\ stats.categories = <<"TS", "Cat1">>
              /\ stats.ace_value = 160000 + 490000
              /\ stats.ace_value = 650000
              /\ stats.duration_hours = 12
              /\ stats.duration_days_x100 = 50

\* the example table was extracted and plotted
C6_Witness == page = ExamplePage /\ pc = "done" /\ stats.track_points = 2

\* the wind (or pressure) cell of the row is a placeholder or does not parse
Unreadable(cells, f) ==
    /\ HasCell(cells, f)
    /\ TextOf(cells, f) \in {"-", ""} \/ ~IsFloatText(TextOf(cells, f))

\* C7: a data row whose latitude or longitude cell does not parse is dropped
\* and the loop goes on to the following rows (the extraction is not aborted, no
\* fix lacks a coordinate); a row whose wind or pressure cell is a placeholder
\* or does not parse is not dropped for it: it is emitted as any other row
\* is, with that field unknown and its coordinates intact.
C7_RowRecovery ==
    row_i >= 2 =>
        /\ pc = "rows" => err = None
        /\ Finished => row_i = Len(data_table) + 1
        /\ \A r \in Processed : ~ValidLatLon(data_table[r]) => ~Emitted(r)
        /\ \A k \in 1..Len(fix_rows) :
              LET cells == data_table[fix_rows[k]]
              IN /\ ValidLatLon(cells)
                 /\ storm_data[k].lat = FloatTenths(TextOf(cells, "lat"))
                 /\ storm_data[k].lon = FloatTenths(TextOf(cells, "lon"))
        /\ \A r \in Processed :
              LET cells == data_table[r]
              IN (/\ Covers(cells) /\ ValidLatLon(cells)
                  /\ YieldsHour(cells) => TextHour(cells) \in SynopticHours)
                    => /\ Emitted(r)
                       /\ Unreadable(cells, "wind") => IsNa(FixOf(r).wind)
                       /\ Unreadable(cells, "pressure") => IsNa(FixOf(r).pressure)

\* after a row with an unparseable latitude was dropped, a row with a
\* placeholder wind and one with an unparseable wind were emitted
C7_Witness ==
    /\ pc = "rows"
    /\ \E r1, r2, r3 \in Processed :
          /\ r1 < r2 /\ r1 < r3
          /\ HasCell(data_table[r1], "lat") /\ ~IsFloatText(TextOf(data_table[r1], "lat"))
          /\ ~Emitted(r1)
          /\ HasCell(data_table[r2], "wind") /\ TextOf(data_table[r2], "wind") = "-"
          /\ Emitted(r2) /\ IsNa(FixOf(r2).wind) /\ FixOf(r2).lat = 265
          /\ HasCell(data_table[r3], "wind") /\ TextOf(data_table[r3], "wind") = "abc"
          /\ Emitted(r3) /\ IsNa(FixOf(r3).wind) /\ FixOf(r3).lon = 0 - 780

\* the substring rule of a semantic field
FieldRule(f, header_lower) ==
    CASE f = "lat" -> Contains(header_lower, "lat")
      [] f = "lon" -> Contains(header_lower, "lon")
      [] f = "wind" -> Contains(header_lower, "usa wind")
      [] f = "pressure" -> \E p \in {"pressure", "pres", "slp", "mslp"} : Contains(header_lower, p)
      [] f = "time" -> Contains(header_lower, "iso_time") \/ Contains(header_lower, "time")

\* the 0-based indices of the headers that match the rule of the field
Matching(hdr, f) == {i \in 0..(Len(hdr) - 1) : FieldRule(f, str_lower(Strip(hdr[i + 1])))}

\* C8 as claimed: when several header cells match the substring rule of one
\* of the five semantic fields, the field is mapped to the lowest-index
\* matching header.
C8_FirstMatchWins ==
    (pc \notin {"fetch", "map"} /\ data_table # <<>>) =>
        \A f \in {"lat", "lon", "wind", "pressure", "time"} :
            Cardinality(Matching(data_table[1], f)) > 1 =>
                /\ f \in DOMAIN column_indices
                /\ \A i \in Matching(data_table[1], f) : column_indices[f] <= i

\* the row's time cell holds a full YYYY-MM-DD HH:MM:SS token
HoldsFull(cells) == HasCell(cells, "time") /\ re_match(FULL_DATETIME_RE, TextOf(cells, "time"))

\* the row's time cell holds a bare HH:MM:SS token
HoldsBare(cells) ==
    /\ HasCell(cells, "time")
    /\ re_match(BARE_TIME_RE, TextOf(cells, "time"))
    /\ ~re_match(FULL_DATETIME_RE, TextOf(cells, "time"))

\* the data rows before r whose time cell holds a full token
FullBefore(r) == {q \in 2..(r - 1) : HoldsFull(data_table[q])}

\* C9 as claimed: a fix whose row holds a bare HH:MM:SS token gets the date
\* of the most recent earlier data row that held a full token, whether that
\* row was emitted, dropped by the synoptic filter or dropped for an
\* unparseable latitude or longitude.
C9_DateInheritance ==
    row_i >= 2 =>
        \A k \in 1..Len(fix_rows) :
            LET r == fix_rows[k]
                cells == data_table[r]
            IN (HoldsBare(cells) /\ FullBefore(r) # {}) =>
                  LET q == CHOOSE x \in FullBefore(r) : \A y \in FullBefore(r) : y <= x
                  IN storm_data[k].datetime
                        = SubSeq(TextOf(data_table[q], "time"), 1, 10) \o " " \o TextOf(cells, "time")

-----------------------------------------------------------------------------
(* Properties of the catalog resolver (SpecCatalog)                         *)

\* the row yields a fix: it has a cell in every mapped column, its latitude
\* and longitude parse, and its time text yields no hour or a synoptic one
ValidRow(cells) ==
    /\ Covers(cells)
    /\ ValidLatLon(cells)
    /\ YieldsHour(cells) => TextHour(cells) \in SynopticHours

\* the located table has no header cell containing "usa wind"
NoUsaWind == data_table # <<>> /\ ~SomeHeader(data_table[1], "usa wind")

\* C17: on a table selected by a first row containing "lat", "lon" and
\* "wind" in which no header cell contains "usa wind", no wind column is
\* mapped; the extraction succeeds when a data row yields a fix, every fix
\* has an unknown wind, every category of the statistics is "No Data",
\* max_wind is unknown, max_wind_mph is "N/A" and the ACE is 0.
C17_NoUsaWind ==
    NoUsaWind =>
        /\ TextQualifies(data_table)
        /\ pc \in {"rows", "plot", "done"} => "wind" \notin DOMAIN column_indices
        /\ \A k \in 1..Len(storm_data) : IsNa(storm_data[k].wind)
        /\ (Finished /\ \E r \in 2..Len(data_table) : ValidRow(data_table[r])) =>
              /\ err = None
              /\ storm_data # <<>>
        /\ pc = "done" =>
              /\ Len(stats.categories) = Len(storm_data)
              /\ \A k \in 1..Len(stats.categories) : stats.categories[k] = "No Data"
              /\ IsNa(stats.max_wind)
              /\ stats.max_wind_mph = "N/A"
              /\ stats.ace_value = 0

\* a table headed LAT, LON, Wind, Pressure, Time whose row gives a wind of
\* 40 kt under Wind was plotted: its fix has no wind
C17_Witness ==
    /\ pc = "done"
    /\ NoUsaWind
    /\ data_table[1] = <<"LAT", "LON", "Wind", "Pressure", "Time">>
    /\ \E r \in 2..Len(data_table) : ValidRow(data_table[r]) /\ Strip(data_table[r][3]) = "40"
    /\ storm_data # <<>>
    /\ stats.categories[1] = "No Data"
    /\ stats.ace_value = 0

-----------------------------------------------------------------------------
(* Properties of the catalog resolver (SpecCatalog), continued              *)

\* the rows the loop of line 201 has gone through
ProcessedRows == {r \in (header_row_index + 1)..(cat_row - 1) : header_row_index >= 0}

TargetColumn == BASINS[basin_name].column_index

HasTargetCell(r) == Len(main_table[r + 1]) > TargetColumn

TargetCell(r) == main_table[r + 1][TargetColumn + 1]

\* the entries appended for row r, in order
EntriesOf(r) ==
    LET at == {k \in 1..Len(storms) : storm_rows[k] = r}
        nth(i) == CHOOSE k \in at : Cardinality({j \in at : j <= k}) = i
    IN [i \in 1..Cardinality(at) |-> storms[nth(i)]]

\* the upper-cased name and the basin code of an entry
KeyOf(storm) == <<str_upper(storm.storm_name), storm.basin>>

FirstWithKey(key) == CHOOSE k \in 1..Len(storms) : KeyOf(storms[k]) = key /\ \A j \in 1..(k - 1) : KeyOf(storms[j]) # key

\* C5: in the returned list no two entries share the key (upper-cased storm
\* name, basin code); of the entries collected with one key - whatever their
\* display names and whether or not they have a locator - exactly one is
\* returned, and it is the first one in table order.
C5_Deduplication ==
    cat_pc = "done" =>
        /\ \A i, j \in 1..Len(catalog) : KeyOf(catalog[i]) = KeyOf(catalog[j]) => i = j
        /\ \A k \in 1..Len(storms) :
              /\ Cardinality({i \in 1..Len(catalog) : KeyOf(catalog[i]) = KeyOf(storms[k])}) = 1
              /\ \E i \in 1..Len(catalog) : catalog[i] = storms[FirstWithKey(KeyOf(storms[k]))]
        /\ \A i \in 1..Len(catalog) : \E k \in 1..Len(storms) : catalog[i] = storms[k]

\* two entries of one key were collected, with different display names, the
\* first without a locator and the second with one, and the first is returned
C5_Witness ==
    /\ cat_pc = "done"
    /\ header_row_index >= 0
    /\ \E j, k \in 1..Len(storms) :
          /\ j < k
          /\ KeyOf(storms[j]) = KeyOf(storms[k])
          /\ storms[j].display_name # storms[k].display_name
          /\ storms[j].url = None
          /\ storms[k].url # None
          /\ FirstWithKey(KeyOf(storms[j])) = j
          /\ \E i \in 1..Len(catalog) : catalog[i] = storms[j]
          /\ \A i \in 1..Len(catalog) : catalog[i] # storms[k]

\* the non-empty lines of a text, as they stand
RECURSIVE NonEmptyLines(_)
NonEmptyLines(text) ==
    LET breaks == {i \in 1..Len(text) : Ch(text, i) = "\n"}
        first == IF breaks = {} THEN Len(text) + 1 ELSE CHOOSE i \in breaks : \A j \in breaks : i <= j
        line == Strip(SubSeq(text, 1, first - 1))
        rest == IF breaks = {} THEN <<>> ELSE NonEmptyLines(SubSeq(text, first + 1, Len(text)))
    IN (IF line # "" THEN <<line>> ELSE <<>>) \o rest

\* a capitalised three-letter word, whitespace and a digit at the start
DateLike(line) ==
    /\ Len(line) >= 5
    /\ IsUpper(Ch(line, 1)) /\ IsLower(Ch(line, 2)) /\ IsLower(Ch(line, 3))
    /\ IsSpace(Ch(line, 4))
    /\ \E i \in 5..Len(line) : IsDigit(Ch(line, i)) /\ \A j \in 4..(i - 1) : IsSpace(Ch(line, j))

\* a cell of a processed row that has no link and a non-empty text
TextOnly(r) ==
    /\ r \in ProcessedRows
    /\ HasTargetCell(r)
    /\ TargetCell(r).links = <<>>
    /\ Strip(TargetCell(r).text) # ""

NameLines(r) ==
    LET lines == NonEmptyLines(TargetCell(r).text)
    IN {i \in 1..Len(lines) : ~DateLike(lines[i])}

\* C10 as stated: every non-empty line of a cell without links that is not
\* date-like yields one entry, without a locator.
C10_AsClaimed ==
    \A r \in 0..(Len(main_table) - 1) :
        TextOnly(r) =>
            /\ Len(EntriesOf(r)) = Cardinality(NameLines(r))
            /\ \A i \in 1..Len(EntriesOf(r)) : EntriesOf(r)[i].url = None

\* whether a name keeps more than one character
LongName(name) == Len(name) > 1

\* the lines of a cell without links that yield an entry
YieldingLines(r) ==
    LET lines == NonEmptyLines(TargetCell(r).text)
    IN {i \in NameLines(r) :
           /\ Strip(TargetCell(r).text) \notin {"-", "UNNAMED"}
           /\ LongName(CleanLineName(lines[i]))}

\* C10: in a cell without links whose whole text is not "-" or "UNNAMED",
\* every non-empty line that is not date-like and whose name, once asterisks
\* and an embedded date range are removed, keeps more than one character
\* yields one entry without a locator, named by that cleaned name; the cell
\* yields no other entry.
C10_TextOnlyEntries ==
    \A r \in 0..(Len(main_table) - 1) :
        TextOnly(r) =>
            LET lines == NonEmptyLines(TargetCell(r).text)
                yielding == YieldingLines(r)
                nth(i) == CHOOSE k \in yielding : Cardinality({j \in yielding : j <= k}) = i
            IN /\ Len(EntriesOf(r)) = Cardinality(yielding)
               /\ \A i \in 1..Len(EntriesOf(r)) :
                     /\ EntriesOf(r)[i].url = None
                     /\ EntriesOf(r)[i].storm_name = CleanLineName(lines[nth(i)])
                     /\ EntriesOf(r)[i].display_name = CleanLineName(lines[nth(i)]) \o " (No track data)"
                     /\ EntriesOf(r)[i].basin = BASINS[basin_name].code

\* a cell of three lines - a name, a date range and a single letter - has
\* yielded the one entry of its name
C10_Witness ==
    \E r \in 0..(Len(main_table) - 1) :
        /\ TextOnly(r)
        /\ TargetCell(r).text = "beta\nAug 5-Aug 9\nA"
        /\ Cardinality(NameLines(r)) = 2
        /\ Len(EntriesOf(r)) = 1
        /\ EntriesOf(r)[1].storm_name = "beta"
        /\ EntriesOf(r)[1].url = None

\* alphabetical order of two names, whatever the case of their letters
AlphaLess(a, b) == StrLess(str_upper(a), str_upper(b))

\* C11 as claimed: the returned catalog is sorted alphabetically by
\* storm_name - of two adjacent entries the earlier name does not come after
\* the later one in alphabetical order, also when the names differ in case.
C11_SortedAlphabetically ==
    cat_pc = "done" =>
        \A i \in 1..(Len(catalog) - 1) :
            ~AlphaLess(catalog[i + 1].storm_name, catalog[i].storm_name)

\* the column labels of the basins
Labels == {BASINS[b].column_name : b \in DOMAIN BASINS}

\* the tables of the year page whose text holds at least 3 labels, by position
Qualifying ==
    {i \in 1..Len(year_page.tables) :
        Cardinality({l \in Labels : Contains(TableText(year_page.tables[i]), l)}) >= 3}

FirstQualifying == CHOOSE i \in Qualifying : \A j \in Qualifying : i <= j

\* the rows of a table that hold the label of the requested basin (0-based)
LabelRows(table) ==
    {r \in 0..(Len(table) - 1) : Contains(RowText(table[r + 1]), BASINS[basin_name].column_name)}

\* C12: the resolver always returns a list; the list is empty when the fetch
\* fails, when no table holds the labels of at least 3 basins, and when no
\* row of the chosen table holds the label of the requested basin; the
\* chosen table is the first qualifying one in document order, and every
\* entry comes from a row of that table after its first row with the label.
C12_EmptyOnFailure ==
    /\ cat_pc \in {"fetch", "header", "rows", "done"}
    /\ cat_pc = "done" =>
          /\ catalog # None
          /\ (~year_page.ok \/ Qualifying = {}) => catalog = <<>>
          /\ (year_page.ok /\ Qualifying # {}) =>
                LET table == year_page.tables[FirstQualifying]
                IN /\ main_table = table
                   /\ LabelRows(table) = {} => catalog = <<>>
                   /\ \A k \in 1..Len(storms) :
                         /\ \E r \in LabelRows(table) : r < storm_rows[k]
                         /\ storm_rows[k] < Len(table)
                   /\ \A i \in 1..Len(catalog) : \E k \in 1..Len(storms) : catalog[i] = storms[k]

\* of three tables two qualify; the rows of the first one were read: the
\* link of the row above its header row gave nothing, a row below it did
C12_Witness ==
    /\ cat_pc = "done"
    /\ Len(year_page.tables) = 3
    /\ Cardinality(Qualifying) = 2
    /\ main_table = year_page.tables[2]
    /\ main_table[1] = TitleRow
    /\ TargetColumn = 1
    /\ header_row_index = 1
    /\ catalog # <<>>
    /\ \A i \in 1..Len(catalog) : catalog[i].storm_name \notin {"OMEGA", "SECOND", "DECOY"}

-----------------------------------------------------------------------------
(* Properties of main and of the caches (SpecMain)                          *)

\* the button was pressed on a chosen entry
PlotRequested == generate_button /\ selected_storm_display # ""

\* the entry the request is for
RequestedStorm == StormOption(main_storms, selected_storm_display)

\* C13: a plot request for a catalog entry without a locator ends with the
\* no-track-data message, and in its run extract_storm_data is not called,
\* no detail page is fetched, create_storm_plot is not called and no figure
\* is created.
C13_NoTrackData ==
    (PlotRequested /\ RequestedStorm.url = None) =>
        /\ main_pc = "done"
        /\ notice = NoTrackMessage
        /\ ~run.extract_called
        /\ run.track_fetch = "none"
        /\ ~run.plot_called
        /\ figure = "none"
        /\ fig = None

\* the entry "beta (No track data)" was chosen and the button pressed
C13_Witness ==
    /\ main_pc = "done"
    /\ PlotRequested
    /\ RequestedStorm.url = None
    /\ RequestedStorm.storm_name = "beta"
    /\ notice = NoTrackMessage

\* the moment an entry stored with the ttl stops being used
ExpiresAt(entry, ttl) == entry.stored_at + ttl

\* C14 as claimed: of a catalog entry and a track entry stored at the same
\* moment, the catalog entry expires first.
C14_CatalogExpiresFirst ==
    \A key \in DOMAIN catalog_cache, url \in DOMAIN track_cache :
        catalog_cache[key].stored_at = track_cache[url].stored_at =>
            ExpiresAt(catalog_cache[key], CATALOG_TTL) < ExpiresAt(track_cache[url], TRACK_TTL)

\* C15 as claimed: at the end of every plot request, on the success path and
\* on every failure path, the figure created during the request is closed.
C15_FiguresClosed == main_pc = "done" => figure # "open"

\* the key of the catalog call of this run
RunKey == <<selected_basin, Year>>

\* C16: a catalog resolution whose fetch fails stores the empty list under
\* (basin, year), and a request for a key whose stored list came from a
\* failed fetch and has not expired gets the empty list without a fetch and
\* leaves the entry as it is; an extraction that raises leaves the entry of
\* its locator as it was (only tracks are ever stored), and the next request
\* for a locator whose latest extraction raised fetches again.
C16_FailureCaching ==
    /\ main_pc \in {"select", "extract", "plot", "display", "done"} =>
          /\ RunKey \in DOMAIN catalog_cache
          /\ main_storms = catalog_cache[RunKey].value
          /\ run.cat_fetch = "failed" =>
                catalog_cache[RunKey] = [value |-> <<>>, stored_at |-> run.started_at]
          /\ (/\ run.key_failed
              /\ run.cat_before # <<>>
              /\ run.started_at < ExpiresAt(run.cat_before[1], CATALOG_TTL)) =>
                 /\ run.cat_fetch = "none"
                 /\ main_storms = <<>>
                 /\ catalog_cache[RunKey] = run.cat_before[1]
    /\ \A key \in failed_keys : key \in DOMAIN catalog_cache /\ catalog_cache[key].value = <<>>
    /\ run.extract_called =>
          /\ run.track_fetch = "raised" =>
                /\ Lookup(track_cache, RequestedStorm.url) = run.track_before
                /\ main_pc = "done"
                /\ ~run.plot_called
          /\ run.url_raised => run.track_fetch # "none"
    /\ \A url \in DOMAIN track_cache : track_cache[url].value # <<>>
    /\ \A url \in raised_urls :
          url \in DOMAIN track_cache => now >= ExpiresAt(track_cache[url], TRACK_TTL)

\* some time after a failed fetch for its key a request got the stored empty
\* list without a fetch, while a locator whose extraction raised has no entry
C16_Witness ==
    /\ main_pc = "done"
    /\ run.key_failed
    /\ run.cat_before # <<>>
    /\ run.cat_before[1].stored_at < run.started_at
    /\ run.started_at < ExpiresAt(run.cat_before[1], CATALOG_TTL)
    /\ run.cat_fetch = "none"
    /\ main_storms = <<>>
    /\ \E url \in raised_urls : url \notin DOMAIN track_cache

====
